---- MODULE Spec2Model ----
(***************************************************************************)
(* Lazy property resolution, deferred query queuing and polymorphic       *)
(* change-collection typing of the Office365 REST client.                 *)
(*                                                                         *)
(*   SpecChange  : ChangeCollection.set_property / resolve_change_type    *)
(*   SpecContext : ServicePrincipal service operations queued on a        *)
(*                 shared context, and the flush that executes them       *)
(*   SpecEntity  : property accessors, get_property and resource paths    *)
(*                 of ServicePrincipal, DirectoryAudit and Change         *)
(***************************************************************************)
EXTENDS Naturals, Integers, Sequences, FiniteSets, TLC

VARIABLES
    item_type,      \* ChangeCollection._item_type
    children,       \* ChangeCollection items, by materialized class, in order
    value,          \* raw properties (their names) of the last set_property call
    queue,          \* the context's pending queries, oldest first
    results,        \* ClientResult objects by identity: the value each wraps
    calls,          \* service-operation calls made so far, in call order
    executed,       \* queries the executor has run, in execution order
    pc,             \* "idle", "flushing" inside execute_query, "failed" after it raised
    flushes,        \* flushes completed so far
    entity_type,    \* class of the entity
    resource_path,  \* the entity's resource path
    properties,     \* the entity's property mapping (self.properties)
    next_id,        \* highest object identity handed out
    ret,            \* the last accessor or get_property call and its result
    prev            \* the read of the same property right before it, if any

vars ==
    <<item_type, children, value, queue, results, calls, executed, pc, flushes,
      entity_type, resource_path, properties, next_id, ret, prev>>

entityVars == <<entity_type, resource_path, properties, next_id, ret, prev>>

contextVars == <<queue, results, calls, executed, pc, flushes>>

changeVars == <<item_type, children, value>>

(***************************************************************************)
(* Bounds                                                                  *)
(***************************************************************************)
MaxItems == 2       \* items fed to one ChangeCollection
MaxOps == 3         \* service operations called on one context
MaxFlushes == 2     \* flushes of one context
MaxObjects == 2     \* objects one entity's calls leave reachable
MaxResponses == 2   \* properties of one entity populated by the server

(***************************************************************************)
(* sharepoint/changes/collection.py                                        *)
(***************************************************************************)
ChangeKeys ==
    {"ListId", "WebId", "ItemId", "UserId", "GroupId", "ContentTypeId",
     "AlertId", "FieldId", "Foo"}

ChangeTypes ==
    {"Change", "ChangeList", "ChangeItem", "ChangeWeb", "ChangeUser",
     "ChangeGroup", "ChangeContentType", "ChangeAlert", "ChangeField"}

\* faulty variant: the WebId test is tried before the ListId-and-WebId test
resolve_change_type_web_first(raw, cur) ==
    IF "WebId" \in raw THEN "ChangeWeb"
    ELSE IF "ListId" \in raw /\ "WebId" \in raw THEN "ChangeList"
    ELSE IF "ItemId" \in raw /\ "ListId" \in raw THEN "ChangeItem"
    ELSE IF "UserId" \in raw THEN "ChangeUser"
    ELSE IF "GroupId" \in raw THEN "ChangeGroup"
    ELSE IF "ContentTypeId" \in raw THEN "ChangeContentType"
    ELSE IF "AlertId" \in raw THEN "ChangeAlert"
    ELSE IF "FieldId" \in raw THEN "ChangeField"
    ELSE cur

\* The value of self._item_type after resolve_change_type(properties), given
\* its value cur before: the if/elif chain has no else branch.
resolve_change_type(raw, cur) ==
    IF "ListId" \in raw /\ "WebId" \in raw THEN "ChangeList"
    ELSE IF "ItemId" \in raw /\ "ListId" \in raw THEN "ChangeItem"
    ELSE IF "WebId" \in raw THEN "ChangeWeb"
    ELSE IF "UserId" \in raw THEN "ChangeUser"
    ELSE IF "GroupId" \in raw THEN "ChangeGroup"
    ELSE IF "ContentTypeId" \in raw THEN "ChangeContentType"
    ELSE IF "AlertId" \in raw THEN "ChangeAlert"
    ELSE IF "FieldId" \in raw THEN "ChangeField"
    ELSE cur

\* EntityCollection.set_property: a new item of the collection's current item
\* type is created and added at the end of the collection.
EntityCollection_set_property(items, type) == Append(items, type)

\* ChangeCollection.__init__: the declared item type is Change.
ChangeCollection_init ==
    /\ item_type = "Change"
    /\ children = <<>>
    /\ value = {}

\* faulty variant: the item is materialized before its type is resolved
set_property_resolve_late(v) ==
    /\ Len(children) < MaxItems
    /\ item_type' = resolve_change_type(v, item_type)
    /\ children' = EntityCollection_set_property(children, item_type)
    /\ value' = v
    /\ UNCHANGED <<contextVars, entityVars>>

\* ChangeCollection.set_property(key, value): resolve, then materialize.
set_property(v) ==
    /\ Len(children) < MaxItems
    /\ item_type' = resolve_change_type(v, item_type)
    /\ children' = EntityCollection_set_property(children, item_type')
    /\ value' = v
    /\ UNCHANGED <<contextVars, entityVars>>

NextChange == \E v \in SUBSET ChangeKeys : set_property(v)

(***************************************************************************)
(* directory/serviceprincipals/service_principal.py: service operations    *)
(***************************************************************************)
\* The service principals that share the one context.
ServicePrincipals == {"sp1", "sp2"}

\* display_name arguments of add_password; "None" is Python's None.
DisplayNames == {"None", "app"}

\* Value objects are modelled by their class and the fields that are not None.
KeyCredential == [cls |-> "KeyCredential", data |-> {}]

SelfSignedCertificate == [cls |-> "SelfSignedCertificate", data |-> {}]

PasswordCredential(display_name) ==
    [cls |-> "PasswordCredential",
     data |-> IF display_name = "None" THEN {}
              ELSE {<<"displayName", display_name>>}]

\* ServiceOperationQuery(binding_type, method_name, ..., return_type); id is
\* the identity of the query object, return_type that of its ClientResult
\* (0 for None).
ServiceOperationQuery(binding_type, method_name, return_type) ==
    [id |-> Len(calls) + 1, binding_type |-> binding_type,
     method_name |-> method_name, return_type |-> return_type]

\* ClientRuntimeContext.add_query: the query joins the end of the pending queue.
add_query(q, qry) == Append(q, qry)

\* The record of a call: who was called, and what the call returned.
Call(method, self, returned, result) ==
    [method |-> method, self |-> self, returned |-> returned,
     result |-> result, flushed |-> flushes]

add_key(self) ==
    /\ pc = "idle"
    /\ Len(calls) < MaxOps
    /\ LET return_type == Len(calls) + 1
           qry == ServiceOperationQuery(self, "addKey", return_type)
       IN  /\ results' = (return_type :> KeyCredential) @@ results
           /\ queue' = add_query(queue, qry)
           /\ calls' = Append(calls, Call("add_key", self, "ClientResult", return_type))
    /\ UNCHANGED <<executed, pc, flushes>>
    /\ UNCHANGED <<changeVars, entityVars>>

\* faulty variant: the query is added to the context twice
add_password_twice(self, display_name) ==
    /\ pc = "idle"
    /\ Len(calls) < MaxOps
    /\ LET params == PasswordCredential(display_name)
           return_type == Len(calls) + 1
           qry == ServiceOperationQuery(self, "addPassword", return_type)
       IN  /\ results' = (return_type :> params) @@ results
           /\ queue' = add_query(add_query(queue, qry), qry)
           /\ calls' = Append(calls, Call("add_password", self, "ClientResult", return_type))
    /\ UNCHANGED <<executed, pc, flushes>>
    /\ UNCHANGED <<changeVars, entityVars>>

\* add_password: the ClientResult wraps params, the request payload itself.
add_password(self, display_name) ==
    /\ pc = "idle"
    /\ Len(calls) < MaxOps
    /\ LET params == PasswordCredential(display_name)
           return_type == Len(calls) + 1
           qry == ServiceOperationQuery(self, "addPassword", return_type)
       IN  /\ results' = (return_type :> params) @@ results
           /\ queue' = add_query(queue, qry)
           /\ calls' = Append(calls, Call("add_password", self, "ClientResult", return_type))
    /\ UNCHANGED <<executed, pc, flushes>>
    /\ UNCHANGED <<changeVars, entityVars>>

\* faulty variant: the ClientResult is never handed to the query, and the query is
\* bound to nothing
add_token_signing_certificate_unbound(self) ==
    /\ pc = "idle"
    /\ Len(calls) < MaxOps
    /\ LET return_type == Len(calls) + 1
           qry == ServiceOperationQuery("None", "addTokenSigningCertificate", 0)
       IN  /\ results' = (return_type :> SelfSignedCertificate) @@ results
           /\ queue' = add_query(queue, qry)
           /\ calls' = Append(calls, Call("add_token_signing_certificate", self,
                                          "ClientResult", return_type))
    /\ UNCHANGED <<executed, pc, flushes>>
    /\ UNCHANGED <<changeVars, entityVars>>

add_token_signing_certificate(self) ==
    /\ pc = "idle"
    /\ Len(calls) < MaxOps
    /\ LET return_type == Len(calls) + 1
           qry == ServiceOperationQuery(self, "addTokenSigningCertificate", return_type)
       IN  /\ results' = (return_type :> SelfSignedCertificate) @@ results
           /\ queue' = add_query(queue, qry)
           /\ calls' = Append(calls, Call("add_token_signing_certificate", self,
                                          "ClientResult", return_type))
    /\ UNCHANGED <<executed, pc, flushes>>
    /\ UNCHANGED <<changeVars, entityVars>>

\* faulty variant: the query is put at the front of the pending queue
remove_password_front(self) ==
    /\ pc = "idle"
    /\ Len(calls) < MaxOps
    /\ LET qry == ServiceOperationQuery(self, "removePassword", 0)
       IN  /\ queue' = <<qry>> \o queue
           /\ calls' = Append(calls, Call("remove_password", self, "self", 0))
    /\ UNCHANGED <<results, executed, pc, flushes>>
    /\ UNCHANGED <<changeVars, entityVars>>

remove_password(self) ==
    /\ pc = "idle"
    /\ Len(calls) < MaxOps
    /\ LET qry == ServiceOperationQuery(self, "removePassword", 0)
       IN  /\ queue' = add_query(queue, qry)
           /\ calls' = Append(calls, Call("remove_password", self, "self", 0))
    /\ UNCHANGED <<results, executed, pc, flushes>>
    /\ UNCHANGED <<changeVars, entityVars>>

(***************************************************************************)
(* The executor (execute_query), an external collaborator: it takes the    *)
(* pending queries oldest first, runs each and fills its ClientResult, and *)
(* the flush is complete when the queue is empty.                          *)
(***************************************************************************)
ServerData(cls) ==
    IF cls = "PasswordCredential" THEN {<<"secretText", "srv">>}
    ELSE IF cls = "KeyCredential" THEN {<<"keyId", "srv">>}
    ELSE {<<"thumbprint", "srv">>}

execute_query_begin ==
    /\ pc = "idle"
    /\ flushes < MaxFlushes
    /\ pc' = "flushing"
    /\ UNCHANGED <<queue, results, calls, executed, flushes>>
    /\ UNCHANGED <<changeVars, entityVars>>

execute_query_next ==
    /\ pc = "flushing"
    /\ queue # <<>>
    /\ LET qry == Head(queue)
           r == qry.return_type
       IN  /\ queue' = Tail(queue)
           /\ executed' = Append(executed, [id |-> qry.id, flush |-> flushes + 1])
           /\ results' = IF r \in DOMAIN results
                         THEN [results EXCEPT ![r].data = @ \cup ServerData(results[r].cls)]
                         ELSE results
    /\ UNCHANGED <<calls, pc, flushes>>
    /\ UNCHANGED <<changeVars, entityVars>>

execute_query_end ==
    /\ pc = "flushing"
    /\ queue = <<>>
    /\ pc' = "idle"
    /\ flushes' = flushes + 1
    /\ UNCHANGED <<queue, results, calls, executed>>
    /\ UNCHANGED <<changeVars, entityVars>>

\* The flush fails at the oldest pending query: that query and the ones behind
\* it are not run, and execute_query reports the failure to its caller. What
\* a caller does with the context afterwards (retry) is not defined.
execute_query_fail ==
    /\ pc = "flushing"
    /\ queue # <<>>
    /\ pc' = "failed"
    /\ UNCHANGED <<queue, results, calls, executed, flushes>>
    /\ UNCHANGED <<changeVars, entityVars>>

\* ClientRuntimeContext.__init__: nothing is pending.
ClientContext_init ==
    /\ queue = <<>>
    /\ results = <<>>
    /\ calls = <<>>
    /\ executed = <<>>
    /\ pc = "idle"
    /\ flushes = 0

NextContext ==
    \/ \E self \in ServicePrincipals : add_key(self)
    \/ \E self \in ServicePrincipals, dn \in DisplayNames : add_password(self, dn)
    \/ \E self \in ServicePrincipals : add_token_signing_certificate(self)
    \/ \E self \in ServicePrincipals : remove_password(self)
    \/ execute_query_begin
    \/ execute_query_next
    \/ execute_query_end
    \/ execute_query_fail

(***************************************************************************)
(* Entities: property mapping, default resolution and resource paths       *)
(***************************************************************************)
EntityTypes == {"ServicePrincipal", "DirectoryAudit", "Change"}

\* A value held in, or returned from, a property mapping: its class, its
\* identity as an object (0 for values without one), the resource path it is
\* bound to (<<>> for none) and its content.
NoneV == [cls |-> "None", id |-> 0, path |-> <<>>, data |-> "None"]

\* An explicit default_value argument that is not None.
Explicit == [cls |-> "object", id |-> 0, path |-> <<>>, data |-> "explicit"]

\* The value a parsed server response gives property name.
ServerValue(name) == [cls |-> "json", id |-> 0, path |-> <<>>, data |-> name]

\* A freshly constructed, empty object bound to path.
BoundObject(cls, id, path) == [cls |-> cls, id |-> id, path |-> path, data |-> "empty"]

\* A freshly constructed, empty value object or value collection.
ValueObject(cls, id) == [cls |-> cls, id |-> id, path |-> <<>>, data |-> "empty"]

\* ResourcePath(segment, parent): a link to the parent path; a path is the
\* list of segments from itself to the root, and <<>> is the parent None.
ResourcePath(segment, parent) == <<segment>> \o parent

\* The address of a path: the parents are walked to the root and the segments
\* joined with the separator.
RECURSIVE to_url(_)
to_url(path) ==
    IF Len(path) = 1 THEN Head(path)
    ELSE to_url(Tail(path)) \o "/" \o Head(path)

\* dict.get(key, default)
Get(props, key, default) == IF key \in DOMAIN props THEN props[key] ELSE default

\* the mapping after dict.setdefault(key, default)
SetDefault(props, key, default) ==
    IF key \in DOMAIN props THEN props ELSE (key :> default) @@ props

EmptyProperties == [k \in {} |-> NoneV]

\* The paths an entity is constructed with: None, a root, or a child of a root.
EntityPaths(type) ==
    IF type = "ServicePrincipal"
    THEN {<<>>, <<"servicePrincipals">>, <<"sp-id", "servicePrincipals">>}
    ELSE IF type = "DirectoryAudit"
    THEN {<<"audit-id", "directoryAudits">>}
    ELSE {<<>>}

\* ---- ServicePrincipal property accessors: props is self.properties and id
\* ---- the identity of the default the accessor constructs.
app_role_assigned_to(props, id) ==
    Get(props, "appRoleAssignedTo",
        BoundObject("AppRoleAssignmentCollection", id,
                    ResourcePath("appRoleAssignedTo", resource_path)))

app_roles(props, id) ==
    Get(props, "appRoles", ValueObject("ClientValueCollection(AppRole)", id))

homepage(props, id) == Get(props, "homepage", NoneV)

\* faulty variant: the default is assigned, replacing a known value
key_credentials_properties_assigned(props, id) ==
    ("keyCredentials" :> ValueObject("ClientValueCollection(KeyCredential)", id))
    @@ props

\* key_credentials is the one accessor that uses setdefault: this is
\* self.properties after it has run.
key_credentials_properties(props, id) ==
    SetDefault(props, "keyCredentials",
               ValueObject("ClientValueCollection(KeyCredential)", id))

key_credentials(props, id) == key_credentials_properties(props, id)["keyCredentials"]

\* faulty variant: the collection is bound to a path without the entity's path
owners_without_parent(props, id) ==
    Get(props, "owners",
        BoundObject("DirectoryObjectCollection", id, ResourcePath("owners", <<>>)))

owners(props, id) ==
    Get(props, "owners",
        BoundObject("DirectoryObjectCollection", id,
                    ResourcePath("owners", resource_path)))

oauth2_permission_scopes(props, id) ==
    Get(props, "oauth2PermissionScopes",
        ValueObject("ClientValueCollection(PermissionScope)", id))

oauth2_permission_grants(props, id) ==
    Get(props, "oauth2PermissionGrants",
        BoundObject("DeltaCollection(OAuth2PermissionGrant)", id,
                    ResourcePath("oauth2PermissionGrants", resource_path)))

created_objects(props, id) ==
    Get(props, "createdObjects",
        BoundObject("DirectoryObjectCollection", id,
                    ResourcePath("createdObjects", resource_path)))

owned_objects(props, id) ==
    Get(props, "ownedObjects",
        BoundObject("DirectoryObjectCollection", id,
                    ResourcePath("ownedObjects", resource_path)))

synchronization(props, id) ==
    Get(props, "synchronization",
        BoundObject("Synchronization", id,
                    ResourcePath("synchronization", resource_path)))

\* ---- DirectoryAudit and Change accessors used by their get_property
activity_datetime(props, id) ==
    Get(props, "activityDateTime",
        [cls |-> "datetime", id |-> 0, path |-> <<>>, data |-> "datetime.min"])

initiated_by(props, id) ==
    Get(props, "initiatedBy", ValueObject("AuditActivityInitiator", id))

change_token(props, id) ==
    Get(props, "ChangeToken", ValueObject("ChangeToken", id))

\* Entity.get_property of the base class: the known value if there is one,
\* else the default it is handed.
Entity_get_property(props, name, default_value) == Get(props, name, default_value)

\* faulty variant: the registered table is consulted whatever default was supplied
ServicePrincipal_get_property_always_table(props, name, default_value, id) ==
    LET props1 == key_credentials_properties(props, id)
        property_mapping ==
            ("appRoles" :> app_roles(props, id + 1))
            @@ ("appRoleAssignedTo" :> app_role_assigned_to(props, id + 1))
            @@ ("created_objects" :> created_objects(props, id + 1))
            @@ ("keyCredentials" :> key_credentials(props, id))
            @@ ("oauth2PermissionScopes" :> oauth2_permission_scopes(props1, id + 1))
            @@ ("ownedObjects" :> owned_objects(props1, id + 1))
            @@ ("oauth2PermissionGrants" :> oauth2_permission_grants(props1, id + 1))
        default == Get(property_mapping, name, default_value)
    IN  [props |-> props1, val |-> Entity_get_property(props1, name, default)]

\* ServicePrincipal.get_property: the mapping after the call and the returned
\* value. Building property_mapping evaluates the seven accessors in order;
\* id is given to the keyCredentials default and id + 1 to the default of the
\* entry that is looked up.
ServicePrincipal_get_property(props, name, default_value, id) ==
    IF default_value = NoneV
    THEN LET props1 == key_credentials_properties(props, id)
             property_mapping ==
                 ("appRoles" :> app_roles(props, id + 1))
                 @@ ("appRoleAssignedTo" :> app_role_assigned_to(props, id + 1))
                 @@ ("created_objects" :> created_objects(props, id + 1))
                 @@ ("keyCredentials" :> key_credentials(props, id))
                 @@ ("oauth2PermissionScopes" :> oauth2_permission_scopes(props1, id + 1))
                 @@ ("ownedObjects" :> owned_objects(props1, id + 1))
                 @@ ("oauth2PermissionGrants" :> oauth2_permission_grants(props1, id + 1))
             default == Get(property_mapping, name, NoneV)
         IN  [props |-> props1, val |-> Entity_get_property(props1, name, default)]
    ELSE [props |-> props, val |-> Entity_get_property(props, name, default_value)]

DirectoryAudit_get_property(props, name, default_value, id) ==
    IF default_value = NoneV
    THEN LET property_mapping ==
                 ("activityDateTime" :> activity_datetime(props, id))
                 @@ ("initiatedBy" :> initiated_by(props, id))
             default == Get(property_mapping, name, NoneV)
         IN  [props |-> props, val |-> Entity_get_property(props, name, default)]
    ELSE [props |-> props, val |-> Entity_get_property(props, name, default_value)]

Change_get_property(props, name, default_value, id) ==
    IF default_value = NoneV
    THEN LET property_mapping == ("ChangeToken" :> change_token(props, id))
             default == Get(property_mapping, name, NoneV)
         IN  [props |-> props, val |-> Entity_get_property(props, name, default)]
    ELSE [props |-> props, val |-> Entity_get_property(props, name, default_value)]

\* ---- Calls on one entity
NoRet ==
    [op |-> "none", name |-> "", default |-> NoneV, val |-> NoneV,
     was_set |-> FALSE, inserted |-> {}]

NoPrev == [name |-> "", val |-> NoneV]

\* What a call returned, with what it found and what it added to the mapping.
Ret(op, name, default_value, val, before, after) ==
    [op |-> op, name |-> name, default |-> default_value, val |-> val,
     was_set |-> name \in DOMAIN before,
     inserted |-> DOMAIN after \ DOMAIN before]

\* The highest identity among the objects a call leaves reachable.
Highest(props, val) ==
    LET ids == {next_id, val.id} \cup {props[k].id : k \in DOMAIN props}
    IN  CHOOSE m \in ids : \A n \in ids : n <= m

\* Property keys read through the ServicePrincipal accessors modelled here
\* (homepage stands for the accessors whose default is None).
ServicePrincipalKeys ==
    {"appRoleAssignedTo", "appRoles", "homepage", "keyCredentials", "owners",
     "oauth2PermissionScopes", "oauth2PermissionGrants", "createdObjects",
     "ownedObjects", "synchronization"}

Accessor(key, props, id) ==
    CASE key = "appRoleAssignedTo" -> app_role_assigned_to(props, id)
      [] key = "appRoles" -> app_roles(props, id)
      [] key = "homepage" -> homepage(props, id)
      [] key = "keyCredentials" -> key_credentials(props, id)
      [] key = "owners" -> owners(props, id)
      [] key = "oauth2PermissionScopes" -> oauth2_permission_scopes(props, id)
      [] key = "oauth2PermissionGrants" -> oauth2_permission_grants(props, id)
      [] key = "createdObjects" -> created_objects(props, id)
      [] key = "ownedObjects" -> owned_objects(props, id)
      [] key = "synchronization" -> synchronization(props, id)

\* Names a server response may carry for an entity of a type.
ServerNames(type) ==
    IF type = "ServicePrincipal" THEN ServicePrincipalKeys
    ELSE IF type = "DirectoryAudit" THEN {"activityDateTime", "initiatedBy", "category"}
    ELSE {"ChangeToken", "ChangeType"}

\* Names get_property is called with: the keys, the names of the
\* property_mapping tables, and a name the client does not know.
PropertyNames(type) ==
    ServerNames(type) \cup {"unknownProperty"}
    \cup (IF type = "ServicePrincipal" THEN {"created_objects"} ELSE {})

AccessorRead(key) ==
    /\ entity_type = "ServicePrincipal"
    /\ key \in ServicePrincipalKeys
    /\ LET id == next_id + 1
           val == Accessor(key, properties, id)
           props1 == IF key = "keyCredentials"
                     THEN key_credentials_properties(properties, id)
                     ELSE properties
       IN  /\ Highest(props1, val) <= MaxObjects
           /\ properties' = props1
           /\ ret' = Ret("access", key, NoneV, val, properties, props1)
           /\ prev' = IF ret.op = "access" /\ ret.name = key
                      THEN [name |-> ret.name, val |-> ret.val]
                      ELSE NoPrev
           /\ next_id' = Highest(props1, val)
    /\ UNCHANGED <<entity_type, resource_path>>
    /\ UNCHANGED <<changeVars, contextVars>>

get_property(name, default_value) ==
    /\ name \in PropertyNames(entity_type)
    /\ LET id == next_id + 1
           r == CASE entity_type = "ServicePrincipal" ->
                       ServicePrincipal_get_property(properties, name, default_value, id)
                  [] entity_type = "DirectoryAudit" ->
                       DirectoryAudit_get_property(properties, name, default_value, id)
                  [] entity_type = "Change" ->
                       Change_get_property(properties, name, default_value, id)
       IN  /\ Highest(r.props, r.val) <= MaxObjects
           /\ properties' = r.props
           /\ ret' = Ret("get_property", name, default_value, r.val, properties, r.props)
           /\ prev' = NoPrev
           /\ next_id' = Highest(r.props, r.val)
    /\ UNCHANGED <<entity_type, resource_path>>
    /\ UNCHANGED <<changeVars, contextVars>>

\* A server response populates property name (Entity.set_property).
Entity_set_property(name) ==
    /\ name \in ServerNames(entity_type)
    /\ name \in DOMAIN properties => properties[name].cls # "json"
    /\ Cardinality({k \in DOMAIN properties : properties[k].cls = "json"}) < MaxResponses
    /\ properties' = (name :> ServerValue(name)) @@ properties
    /\ ret' = NoRet
    /\ prev' = NoPrev
    /\ UNCHANGED <<entity_type, resource_path, next_id>>
    /\ UNCHANGED <<changeVars, contextVars>>

\* Entity.__init__: a type, an optional path, no known properties.
Entity_init ==
    /\ entity_type \in EntityTypes
    /\ resource_path \in EntityPaths(entity_type)
    /\ properties = EmptyProperties
    /\ next_id = 0
    /\ ret = NoRet
    /\ prev = NoPrev

\* The one entity of the runs that do not exercise entities.
Entity_unused ==
    /\ entity_type = "ServicePrincipal"
    /\ resource_path = <<>>
    /\ properties = EmptyProperties
    /\ next_id = 0
    /\ ret = NoRet
    /\ prev = NoPrev

NextEntity ==
    \/ \E key \in ServicePrincipalKeys : AccessorRead(key)
    \/ \E name \in PropertyNames(entity_type), d \in {NoneV, Explicit} :
          get_property(name, d)
    \/ \E name \in ServerNames(entity_type) : Entity_set_property(name)

(***************************************************************************)
(* Specifications                                                          *)
(***************************************************************************)
Init == ChangeCollection_init /\ ClientContext_init /\ Entity_unused

InitEntity == ChangeCollection_init /\ ClientContext_init /\ Entity_init

SpecChange == Init /\ [][NextChange]_vars

SpecContext == Init /\ [][NextContext]_vars

SpecEntity == InitEntity /\ [][NextEntity]_vars

(***************************************************************************)
(* Claims about ChangeCollection                                           *)
(***************************************************************************)
\* The key-presence rules as the specification lists them, top to bottom.
Rules ==
    << [keys |-> {"ListId", "WebId"},  type |-> "ChangeList"],
       [keys |-> {"ItemId", "ListId"}, type |-> "ChangeItem"],
       [keys |-> {"WebId"},            type |-> "ChangeWeb"],
       [keys |-> {"UserId"},           type |-> "ChangeUser"],
       [keys |-> {"GroupId"},          type |-> "ChangeGroup"],
       [keys |-> {"ContentTypeId"},    type |-> "ChangeContentType"],
       [keys |-> {"AlertId"},          type |-> "ChangeAlert"],
       [keys |-> {"FieldId"},          type |-> "ChangeField"] >>

Matching(p) == {i \in 1..Len(Rules) : Rules[i].keys \subseteq p}

FirstMatch(p) == CHOOSE i \in Matching(p) : \A j \in Matching(p) : i <= j

LastItem == children[Len(children)]

\* C1: an item whose raw properties match none of the eight rules is
\* materialized as the base type Change, at every position of the sequence
\* of items, whatever was processed before it.
C1_NoMatchFallsBackToBase ==
    (Len(children) > 0 /\ Matching(value) = {}) => LastItem = "Change"

\* C3: the item type selected for a set of property names is the type of the
\* first rule, top to bottom, that the names satisfy; {ListId, WebId} gives
\* the list change and {ItemId, ListId} the item change.
C3_FirstMatchingRuleWins ==
    (Len(children) > 0 /\ Matching(value) # {}) =>
        /\ LastItem = Rules[FirstMatch(value)].type
        /\ item_type = LastItem
        /\ (value = {"ListId", "WebId"} => LastItem = "ChangeList")
        /\ (value = {"ItemId", "ListId"} => LastItem = "ChangeItem")

\* C3 witness: an item with ItemId, ListId and WebId, where the first three
\* rules all match, was processed after an item of another type.
C3_Witness ==
    /\ Len(children) = 2
    /\ children[1] = "ChangeUser"
    /\ value = {"ItemId", "ListId", "WebId"}
    /\ LastItem = "ChangeList"

\* C12: the type of an item is resolved from that item's own raw properties
\* before the base set_property materializes it, and an item that has been
\* materialized keeps its type when a later item is processed, also when
\* that item switches the collection's current item type.
C12_ResolvedBeforeMaterializedThenFixed ==
    [][Len(children') > Len(children) =>
          /\ Len(children') = Len(children) + 1
          /\ SubSeq(children', 1, Len(children)) = children
          /\ children'[Len(children')] = item_type'
          /\ Matching(value') # {} =>
                children'[Len(children')] = Rules[FirstMatch(value')].type]_vars

\* C12 witness: a user change was processed after a list change and switched
\* the current item type; the first item is still a list change.
C12_Witness ==
    /\ children = <<"ChangeList", "ChangeUser">>
    /\ value = {"UserId"}
    /\ item_type = "ChangeUser"

(***************************************************************************)
(* Claims about the operation queue                                        *)
(***************************************************************************)
Ids(s) == [i \in 1..Len(s) |-> s[i].id]

Methods == [i \in 1..Len(calls) |-> calls[i].method]

ExecutedIds == {executed[i].id : i \in 1..Len(executed)}

\* C6: a call of add_key, add_password, add_token_signing_certificate or
\* remove_password appends exactly one query, bound to the called service
\* principal, at the end of the context's queue, keeps the earlier queries in
\* place, executes nothing, and returns the query's result placeholder (the
\* three add operations) or the entity itself (remove_password).
C6_EnqueueAppendsOne ==
    [][Len(calls') > Len(calls) =>
        LET c == calls'[Len(calls')]
            q == queue'[Len(queue')]
        IN  /\ Len(calls') = Len(calls) + 1
            /\ Len(queue') = Len(queue) + 1
            /\ SubSeq(queue', 1, Len(queue)) = queue
            /\ q.binding_type = c.self
            /\ \A i \in 1..Len(queue) : queue[i].id # q.id
            /\ executed' = executed
            /\ \A r \in DOMAIN results : results'[r] = results[r]
            /\ pc' = pc
            /\ IF c.method = "remove_password"
               THEN c.returned = "self" /\ q.return_type = 0
               ELSE /\ c.returned = "ClientResult"
                    /\ q.return_type = c.result
                    /\ c.result \in DOMAIN results' \ DOMAIN results]_vars

\* C6 witness: remove_password on sp2 was queued behind two still-pending
\* operations of sp1.
C6_Witness ==
    /\ Len(queue) = 3
    /\ Methods = <<"add_token_signing_certificate", "add_key", "remove_password">>
    /\ queue[1].binding_type = "sp1"
    /\ queue[3].binding_type = "sp2"
    /\ executed = <<>>

\* C7: the operations of one context are executed in the order of the calls
\* that queued them: the executed queries followed by the pending ones are
\* the calls in call order.
C7_FifoExecution ==
    Ids(executed) \o Ids(queue) = [i \in 1..Len(calls) |-> i]

\* C7 witness: add_password, add_key, remove_password were executed, in that
\* order, by one flush.
C7_Witness ==
    /\ Methods = <<"add_password", "add_key", "remove_password">>
    /\ Ids(executed) = <<1, 2, 3>>
    /\ \A i \in 1..3 : executed[i].flush = 1
    /\ flushes = 1

\* C8: a flush clears the queue: between flushes the queue holds only
\* operations queued since the last completed flush, each flush executes just
\* the operations queued since the flush before it, and no operation is
\* executed twice.
C8_FlushClearsQueue ==
    /\ pc = "idle" => \A i \in 1..Len(queue) : calls[queue[i].id].flushed = flushes
    /\ \A i \in 1..Len(executed) :
          executed[i].flush = calls[executed[i].id].flushed + 1
    /\ \A i, j \in 1..Len(executed) : i # j => executed[i].id # executed[j].id

\* C8 witness: an add was flushed, then a remove was queued and flushed by a
\* second flush, as in the add_remove_user example.
C8_Witness ==
    /\ Methods = <<"add_password", "remove_password">>
    /\ executed = <<[id |-> 1, flush |-> 1], [id |-> 2, flush |-> 2]>>
    /\ flushes = 2
    /\ pc = "idle"
    /\ queue = <<>>

\* C9: the result returned by add_key, add_password and
\* add_token_signing_certificate wraps a value that carries no data until the
\* flush has executed its operation.
C9_ResultUnpopulatedUntilFlush ==
    \A r \in DOMAIN results : r \notin ExecutedIds => results[r].data = {}

\* C11: when a flush has failed part-way, the result of every operation that
\* was queued but not executed is unpopulated (its value carries no data);
\* the failure is reported by the flush, not by the calls that queued the
\* operations, each of which returned its placeholder or the entity.
C11_FailedFlushLeavesResultsUnpopulated ==
    /\ pc = "failed" =>
          \A r \in DOMAIN results : r \notin ExecutedIds => results[r].data = {}
    /\ \A i \in 1..Len(calls) : calls[i].returned \in {"ClientResult", "self"}
    /\ pc = "failed" => queue # <<>>

(***************************************************************************)
(* Claims about entities                                                   *)
(***************************************************************************)
CollectionProperties ==
    {"owners", "appRoleAssignedTo", "createdObjects", "ownedObjects",
     "oauth2PermissionGrants", "keyCredentials"}

BoundProperties ==
    {"owners", "appRoleAssignedTo", "createdObjects", "ownedObjects",
     "oauth2PermissionGrants", "synchronization"}

\* The address of the entity itself, written out for each path it can have.
EntityAddress ==
    CASE resource_path = <<"servicePrincipals">> -> "servicePrincipals"
      [] resource_path = <<"sp-id", "servicePrincipals">> -> "servicePrincipals/sp-id"
      [] resource_path = <<"audit-id", "directoryAudits">> -> "directoryAudits/audit-id"
      [] OTHER -> ""

\* The address of a sub-object reached from the entity through segment.
ExpectedAddress(segment) ==
    IF resource_path = <<>> THEN segment ELSE EntityAddress \o "/" \o segment

Address(v) == IF v.path = <<>> THEN "" ELSE to_url(v.path)

\* The names with a registered default, and the default of each: its class,
\* its address ("" when it is bound to no path) and its content.
RegisteredNames ==
    IF entity_type = "ServicePrincipal"
    THEN {"appRoles", "appRoleAssignedTo", "created_objects", "keyCredentials",
          "oauth2PermissionScopes", "ownedObjects", "oauth2PermissionGrants"}
    ELSE IF entity_type = "DirectoryAudit" THEN {"activityDateTime", "initiatedBy"}
    ELSE {"ChangeToken"}

TypeDefault(name) ==
    CASE name = "appRoles" ->
           <<"ClientValueCollection(AppRole)", "", "empty">>
      [] name = "appRoleAssignedTo" ->
           <<"AppRoleAssignmentCollection", ExpectedAddress("appRoleAssignedTo"), "empty">>
      [] name = "created_objects" ->
           <<"DirectoryObjectCollection", ExpectedAddress("createdObjects"), "empty">>
      [] name = "keyCredentials" ->
           <<"ClientValueCollection(KeyCredential)", "", "empty">>
      [] name = "oauth2PermissionScopes" ->
           <<"ClientValueCollection(PermissionScope)", "", "empty">>
      [] name = "ownedObjects" ->
           <<"DirectoryObjectCollection", ExpectedAddress("ownedObjects"), "empty">>
      [] name = "oauth2PermissionGrants" ->
           <<"DeltaCollection(OAuth2PermissionGrant)",
             ExpectedAddress("oauth2PermissionGrants"), "empty">>
      [] name = "activityDateTime" -> <<"datetime", "", "datetime.min">>
      [] name = "initiatedBy" -> <<"AuditActivityInitiator", "", "empty">>
      [] name = "ChangeToken" -> <<"ChangeToken", "", "empty">>

Structure(v) == <<v.cls, Address(v), v.data>>

\* C2: two reads in a row of the same collection-typed property of one
\* ServicePrincipal, with no server response between them, return the
\* identical collection instance.
C2_SameInstanceOnRepeatedAccess ==
    (ret.op = "access" /\ prev.name = ret.name /\ ret.name \in CollectionProperties)
        => ret.val = prev.val

\* C4: get_property(name) without an explicit default returns the known value
\* when name is in the property mapping; for a name never set it returns the
\* type-specific default (not None) when name is registered in the entity's
\* property_mapping, and None when it is not.
C4_GetPropertyDefault ==
    (ret.op = "get_property" /\ ret.default = NoneV) =>
        IF ret.was_set THEN ret.val = properties[ret.name]
        ELSE IF ret.name \in RegisteredNames
        THEN ret.val # NoneV /\ Structure(ret.val) = TypeDefault(ret.name)
        ELSE ret.val = NoneV

\* C5: get_property(name, d) with an explicit default d that is not None, for
\* a name absent from the known properties, returns d even when name is
\* registered, and the registered table is not built (nothing is memoized).
C5_ExplicitDefaultWins ==
    (ret.op = "get_property" /\ ret.default # NoneV /\ ~ret.was_set) =>
        /\ ret.val = ret.default
        /\ ret.inserted = {}
        /\ ret.name \notin DOMAIN properties

\* C5 witness: a ServicePrincipal was asked for the registered name
\* appRoleAssignedTo, never set, with an explicit default.
C5_Witness ==
    /\ entity_type = "ServicePrincipal"
    /\ ret.op = "get_property"
    /\ ret.name = "appRoleAssignedTo"
    /\ ret.name \in RegisteredNames
    /\ ret.default = Explicit
    /\ ~ret.was_set
    /\ ret.val = Explicit

\* C10: the default sub-object an accessor of a ServicePrincipal resolves is
\* addressed by the entity's address, the separator and the property's
\* segment, in root-to-leaf order; under an entity without a path it is
\* addressed by its segment alone; nothing is queued or executed for it.
C10_DefaultAddressIsConcatenation ==
    /\ resource_path # <<>> => to_url(resource_path) = EntityAddress
    /\ (ret.op = "access" /\ ret.name \in BoundProperties /\ ~ret.was_set) =>
          /\ ret.val.path # <<>>
          /\ to_url(ret.val.path) = ExpectedAddress(ret.name)
    /\ queue = <<>> /\ executed = <<>> /\ pc = "idle"

\* C10 witness: oauth2PermissionGrants resolved under a service principal two
\* segments deep.
C10_Witness ==
    /\ ret.op = "access"
    /\ ret.name = "oauth2PermissionGrants"
    /\ ~ret.was_set
    /\ resource_path = <<"sp-id", "servicePrincipals">>
    /\ to_url(ret.val.path) = "servicePrincipals/sp-id/oauth2PermissionGrants"

\* C13: on a ServicePrincipal, get_property(name) without an explicit default
\* changes the property mapping in one way only, whatever the name: it
\* inserts the keyCredentials default when keyCredentials was absent; every
\* key already there keeps its value and no other key appears. Reading an
\* accessor other than key_credentials leaves the mapping unchanged.
C13_GetPropertyOnlyMemoizesKeyCredentials ==
    [][/\ (/\ entity_type = "ServicePrincipal"
           /\ ret'.op = "get_property"
           /\ ret'.default = NoneV) =>
             /\ DOMAIN properties' = DOMAIN properties \cup {"keyCredentials"}
             /\ \A k \in DOMAIN properties : properties'[k] = properties[k]
             /\ "keyCredentials" \notin DOMAIN properties =>
                   /\ properties'["keyCredentials"].cls = "ClientValueCollection(KeyCredential)"
                   /\ properties'["keyCredentials"].data = "empty"
       /\ (ret'.op = "access" /\ ret'.name # "keyCredentials") =>
             properties' = properties]_vars

\* C13 witness: get_property("owners"), a name outside the table, on a
\* ServicePrincipal whose createdObjects came from the server, inserted
\* keyCredentials and nothing else.
C13_Witness ==
    /\ entity_type = "ServicePrincipal"
    /\ ret.op = "get_property"
    /\ ret.default = NoneV
    /\ ret.name = "owners"
    /\ ret.inserted = {"keyCredentials"}
    /\ DOMAIN properties = {"createdObjects", "keyCredentials"}
    /\ properties["createdObjects"] = ServerValue("createdObjects")

====
